---- MODULE Spec2Model ----
(***************************************************************************)
(* State-machine model of src/commands/io/mod.rs of the reql driver:       *)
(* the Response stream (poll), the process-wide CONFIG / POOL registries,  *)
(* connect, run and the topology maintainer thread.                        *)
(***************************************************************************)
EXTENDS Integers, Sequences, FiniteSets, TLC

\* ------------------------------------------------------------------------
\* Bounds of the model
\* ------------------------------------------------------------------------
\* items the dispatched worker pushes on one result channel
MaxSend == 3
\* calls of Response::poll on one Response
MaxPolls == 5
\* change records applied to one cluster taken alone
MaxApply == 3
\* calls of write_query and read_query on one session
MaxCalls == 2
\* options in one call of connect
MaxOptargs == 2
\* membership changes, feed ends and subscriptions of one feed
MaxEvents == 5

\* connect calls (each allocates one Connection handle)
MaxConns == 2
\* items the change feeds deliver to the maintainers, in total
MaxItems == 2
\* subscriptions the maintainers issue, in total
MaxSubs == 2
\* distinct elapsed times a successful probe can measure
MaxElapsed == 1

\* const CHANNEL_SIZE: usize = 1024;
CHANNEL_SIZE == 1024

Nil == "nil"

\* ------------------------------------------------------------------------
\* State
\* ------------------------------------------------------------------------
VARIABLES
  done,      \* Response.done
  rx,        \* Response.rx: the items queued in the mpsc channel, oldest first
  txAlive,   \* TRUE while the worker still owns the Sender of the channel
  sent,      \* number of items the worker has pushed
  last,      \* what the latest call of poll returned
  polls,     \* number of calls of Response::poll
  rxPolls,   \* number of calls of self.rx.poll() made by Response::poll
  CONFIG,    \* static CONFIG: RwLock<OrderMap<Connection, Config>>, the map
  POOL,      \* static POOL: RwLock<OrderMap<Connection, r2d2::Pool>>, the map
  configLock,\* the thread holding CONFIG's write guard, <<>> when none does
  cpc,       \* position of each connect call (call k allocates handle k)
  cidx,      \* connect's set_latency: index of the server being probed
  mpc,       \* position of each connection's maintainer thread
  mcur,      \* maintainer: the Server built from the record being applied
  ready,     \* maintainer: line 333 (the readiness signal) has been executed
  nitems,    \* feed items consumed so far
  nsubs,     \* subscriptions issued so far
  run,       \* the user thread's current call of run
  store,     \* one Config's cluster, taken alone
  storePrev, \* store before the latest change record was applied
  applied,   \* the latest change record applied to store
  napplied,  \* number of change records applied to store
  session,   \* one Session: its id (token) and its broken flag
  wire,      \* what has been written to session.stream, oldest first
  lastIO,    \* the latest call of write_query or read_query on session
  ncalls,    \* number of calls of write_query and read_query
  optcall,   \* one call of set_config: its option argument and its outcome
  envelope,  \* one call of wrap_query: its arguments and the text returned
  members,   \* the servers that are members of the cluster right now
  feed       \* the state of one connection's change feed

respVars == <<done, rx, txAlive, sent, last, polls, rxPolls>>

regVars == <<CONFIG, POOL, configLock, cpc, cidx, mpc, mcur, ready, nitems, nsubs, run>>

storeVars == <<store, storePrev, applied, napplied>>

frameVars == <<session, wire, lastIO, ncalls>>

feedVars == <<members, feed>>

newVars == <<session, wire, lastIO, ncalls, optcall, envelope, members, feed>>

vars == <<done, rx, txAlive, sent, last, polls, rxPolls,
          CONFIG, POOL, configLock, cpc, cidx, mpc, mcur, ready, nitems, nsubs, run,
          store, storePrev, applied, napplied,
          session, wire, lastIO, ncalls, optcall, envelope, members, feed>>

\* ------------------------------------------------------------------------
\* Response stream
\* ------------------------------------------------------------------------
\* payloads Ok(data) and Err(error) a worker can push (Result<Option<Document<T>>>)
Data == {"d1", "d2"}
Errors == {"e1"}
Results == [ok : {TRUE}, val : Data] \cup [ok : {FALSE}, val : Errors]

\* futures::sync::mpsc::Receiver::poll: the oldest queued item, else
\* Ready(None) once every Sender is gone, else NotReady.  Its Error type is
\* (): it never yields Err.
rx_poll(q, alive) ==
  IF q # <<>> THEN [kind |-> "ReadySome", item |-> Head(q)]
  ELSE IF ~alive THEN [kind |-> "ReadyNone", item |-> Nil]
  ELSE [kind |-> "NotReady", item |-> Nil]

\* poll without the latch on the terminal item
poll_NoLatch(d, q, alive) ==
  IF d THEN [ret |-> "ReadyNone", val |-> Nil, done |-> d, rx |-> q, polled |-> FALSE]
  ELSE LET r == rx_poll(q, alive) IN
    CASE r.kind = "NotReady" ->
           [ret |-> "NotReady", val |-> Nil, done |-> d, rx |-> q, polled |-> TRUE]
      [] r.kind = "ReadySome" /\ r.item.ok ->
           [ret |-> "ReadySome", val |-> r.item.val, done |-> d, rx |-> Tail(q), polled |-> TRUE]
      [] r.kind = "ReadySome" /\ ~r.item.ok ->
           [ret |-> "Err", val |-> r.item.val, done |-> d, rx |-> Tail(q), polled |-> TRUE]
      [] r.kind = "ReadyNone" ->
           [ret |-> "ReadyNone", val |-> Nil, done |-> d, rx |-> q, polled |-> TRUE]
      [] OTHER ->
           [ret |-> "Err", val |-> "stream", done |-> TRUE, rx |-> q, polled |-> TRUE]

\* Response::poll(&mut self): the value returned, the new done flag, the
\* new channel contents and whether self.rx.poll() was called.
poll(d, q, alive) ==
  IF d THEN [ret |-> "ReadyNone", val |-> Nil, done |-> d, rx |-> q, polled |-> FALSE]
  ELSE LET r == rx_poll(q, alive) IN
    CASE r.kind = "NotReady" ->
           [ret |-> "NotReady", val |-> Nil, done |-> d, rx |-> q, polled |-> TRUE]
      [] r.kind = "ReadySome" /\ r.item.ok ->
           [ret |-> "ReadySome", val |-> r.item.val, done |-> d, rx |-> Tail(q), polled |-> TRUE]
      [] r.kind = "ReadySome" /\ ~r.item.ok ->
           [ret |-> "Err", val |-> r.item.val, done |-> d, rx |-> Tail(q), polled |-> TRUE]
      [] r.kind = "ReadyNone" ->
           [ret |-> "ReadyNone", val |-> Nil, done |-> TRUE, rx |-> q, polled |-> TRUE]
      [] OTHER ->
           [ret |-> "Err", val |-> "stream", done |-> TRUE, rx |-> q, polled |-> TRUE]

\* Ok(Response { done: false, rx: rx }) with the Sender moved to the worker
ResponseNew ==
  /\ done = FALSE
  /\ rx = <<>>
  /\ txAlive = TRUE
  /\ sent = 0
  /\ last = [ret |-> "NoPoll", val |-> Nil]
  /\ polls = 0
  /\ rxPolls = 0

\* the consumer calls Response::poll
Poll ==
  /\ polls < MaxPolls
  /\ LET p == poll(done, rx, txAlive) IN
       /\ done' = p.done
       /\ rx' = p.rx
       /\ last' = [ret |-> p.ret, val |-> p.val]
       /\ rxPolls' = IF p.polled THEN rxPolls + 1 ELSE rxPolls
  /\ polls' = polls + 1
  /\ UNCHANGED <<txAlive, sent>>
  /\ UNCHANGED <<regVars, storeVars, newVars>>

\* the dispatched worker pushes a result (Ok or Err) through tx
WorkerSend ==
  /\ txAlive
  /\ sent < MaxSend
  /\ Len(rx) < CHANNEL_SIZE + 1
  /\ \E res \in Results : rx' = Append(rx, res)
  /\ sent' = sent + 1
  /\ UNCHANGED <<done, txAlive, last, polls, rxPolls>>
  /\ UNCHANGED <<regVars, storeVars, newVars>>

\* the dispatched worker finishes: its Sender is dropped
WorkerDrop ==
  /\ txAlive
  /\ txAlive' = FALSE
  /\ UNCHANGED <<done, rx, sent, last, polls, rxPolls>>
  /\ UNCHANGED <<regVars, storeVars, newVars>>

\* ------------------------------------------------------------------------
\* Values of the registries
\* ------------------------------------------------------------------------
\* Connection(Uuid::new_v4()): call k of connect allocates handle k
Conns == 1..MaxConns
\* arg.pool == None
NoConn == 0

\* Option<T>: None is <<>>, Some(x) is <<x>>
None == <<>>
Some(x) == <<x>>

\* Duration::from_millis(u64::max_value()): above every measured latency
LatencyMax == MaxElapsed + 1
\* the values start.elapsed() can take
Elapsed == 1..MaxElapsed

\* the values of the `servers` option: not given, or the one host that is
\* also the default
SeedLists == {<<>>, <<"localhost">>}
\* node names and canonical address lists the server_status feed reports
Names == {"n1", "n2"}
AddrLists == {<<>>, <<"a1">>}
\* the node names in the feeds of the connections that run side by side
FeedNames == {"n1"}
\* ServerStatus as far as maintain reads it: name and network addresses
Statuses(names) == [name : names, addresses : AddrLists]
\* old_val is read for its name only
OldStatuses(names) == [name : names, addresses : {<<>>}]
\* Change<ServerStatus, ServerStatus> { new_val, old_val }
Changes(names) ==
  [new_val : {None} \cup {Some(st) : st \in Statuses(names)},
   old_val : {None} \cup {Some(st) : st \in OldStatuses(names)}]

\* ------------------------------------------------------------------------
\* OrderMap, as a sequence of [key, val] entries in insertion order
\* ------------------------------------------------------------------------
\* position of key in the map, 0 when absent
IndexOf(m, key) ==
  IF \E i \in 1..Len(m) : m[i].key = key
  THEN CHOOSE i \in 1..Len(m) : m[i].key = key
  ELSE 0

Keys(m) == {m[i].key : i \in 1..Len(m)}

\* an insert that pushes a new entry even when the key is present
OrderMap_insert_Push(m, key, val) ==
  Append(m, [key |-> key, val |-> val])

\* OrderMap::insert: replace the value of an existing key in place, else
\* append a new entry
OrderMap_insert(m, key, val) ==
  LET i == IndexOf(m, key) IN
    IF i = 0 THEN Append(m, [key |-> key, val |-> val])
    ELSE [m EXCEPT ![i].val = val]

\* OrderMap::remove (swap_remove): the last entry takes the removed place
OrderMap_remove(m, key) ==
  LET i == IndexOf(m, key)
      n == Len(m)
  IN IF i = 0 THEN m
     ELSE IF i = n THEN SubSeq(m, 1, n - 1)
     ELSE [j \in 1..(n - 1) |-> IF j = i THEN m[n] ELSE m[j]]

\* Server::new(host, addresses)
Server_new(host, addresses) ==
  [name |-> host, addresses |-> addresses, latency |-> LatencyMax]

\* the outcomes of Server::set_latency: the first address that accepts a
\* TCP connection sets latency to the elapsed time; when none does (or the
\* list is empty) latency is left alone
Server_set_latency(server) ==
  {server} \cup
  (IF server.addresses = <<>> THEN {}
   ELSE {[server EXCEPT !.latency = e] : e \in Elapsed})

\* the map with key conn set to value v (OrderMap::insert on a registry)
Registry_insert(reg, conn, v) ==
  [c \in (DOMAIN reg) \cup {conn} |-> IF c = conn THEN v ELSE reg[c]]

\* ------------------------------------------------------------------------
\* connect
\* ------------------------------------------------------------------------
ConnectErrors == {"err_client", "err_arg", "err_handle", "err_option",
                  "err_resolve", "err_latency", "err_pool"}

\* host.to_socket_addrs(), retried with ":28015" appended, when it
\* succeeds: the addresses of the host (a failure is resolveOk = FALSE in
\* set_config)
Resolved(host) == <<host>>

\* the cluster set_config builds from hosts that all resolved:
\* cluster.insert(host, Server::new(&host, addresses)) for each host in turn
RECURSIVE SeedCluster(_)
SeedCluster(hosts) ==
  IF hosts = <<>> THEN <<>>
  ELSE LET h == hosts[Len(hosts)] IN
         OrderMap_insert(SeedCluster(SubSeq(hosts, 1, Len(hosts) - 1)),
                         h, Server_new(h, Resolved(h)))

\* Connection::set_config: the options are read (optsOk: no reader returned
\* an error), the hosts default to localhost and are resolved (a failure
\* is an error), and the Config is inserted in CONFIG
set_config(cfg, conn, seeds, optsOk, resolveOk) ==
  LET hosts == IF seeds = <<>> THEN <<"localhost">> ELSE seeds IN
    IF ~optsOk THEN [pc |-> "err_option", CONFIG |-> cfg]
    ELSE IF ~resolveOk THEN [pc |-> "err_resolve", CONFIG |-> cfg]
    ELSE [pc |-> "set_latency",
          CONFIG |-> Registry_insert(cfg, conn, [cluster |-> SeedCluster(hosts)])]

\* connect, lines 39-54: the early returns, the allocation of the handle
\* and conn.set_config
ConnectSetConfig(k) ==
  /\ cpc[k] = "idle"
  /\ IF k = 1 THEN TRUE ELSE cpc[k - 1] # "idle"
  /\ \E clientOk, argOk, remote, optsOk, resolveOk \in BOOLEAN, seeds \in SeedLists :
       IF ~clientOk THEN /\ cpc' = [cpc EXCEPT ![k] = "err_client"]
                         /\ UNCHANGED CONFIG
       ELSE IF ~argOk THEN /\ cpc' = [cpc EXCEPT ![k] = "err_arg"]
                           /\ UNCHANGED CONFIG
       ELSE IF ~remote THEN /\ cpc' = [cpc EXCEPT ![k] = "err_handle"]
                            /\ UNCHANGED CONFIG
       ELSE LET r == set_config(CONFIG, k, seeds, optsOk, resolveOk) IN
              /\ r.pc = "set_latency" => configLock = None
              /\ cpc' = [cpc EXCEPT ![k] = r.pc]
              /\ CONFIG' = r.CONFIG
  /\ UNCHANGED <<POOL, configLock, cidx, mpc, mcur, ready, nitems, nsubs, run>>
  /\ UNCHANGED <<respVars, storeVars, newVars>>

\* Connection::set_latency, line 363: CONFIG.write() is taken and held by
\* the match; with no Config the call fails, else the first server's
\* Server::set_latency starts
ConnectSetLatency(k) ==
  /\ cpc[k] = "set_latency"
  /\ configLock = None
  /\ IF k \in DOMAIN CONFIG
     THEN /\ configLock' = <<"connect", k>>
          /\ cpc' = [cpc EXCEPT ![k] = "probe"]
          /\ cidx' = [cidx EXCEPT ![k] = 1]
     ELSE /\ cpc' = [cpc EXCEPT ![k] = "err_latency"]
          /\ UNCHANGED <<configLock, cidx>>
  /\ UNCHANGED <<CONFIG, POOL, mpc, mcur, ready, nitems, nsubs, run>>
  /\ UNCHANGED <<respVars, storeVars, newVars>>

\* Connection::set_latency, lines 365-367: the Server::set_latency of the
\* server at cidx finishes (its TcpStream::connect attempts are over); the
\* loop goes on to the next server, or the match ends and the write guard
\* is dropped
ConnectProbe(k) ==
  /\ cpc[k] = "probe"
  /\ configLock = <<"connect", k>>
  /\ LET cluster == CONFIG[k].cluster
         i == cidx[k]
     IN /\ \E s \in Server_set_latency(cluster[i].val) :
             CONFIG' = [CONFIG EXCEPT ![k].cluster[i].val = s]
        /\ IF i < Len(cluster)
           THEN /\ cidx' = [cidx EXCEPT ![k] = i + 1]
                /\ UNCHANGED <<cpc, configLock>>
           ELSE /\ cidx' = [cidx EXCEPT ![k] = 0]
                /\ cpc' = [cpc EXCEPT ![k] = "pool"]
                /\ configLock' = None
  /\ UNCHANGED <<POOL, mpc, mcur, ready, nitems, nsubs, run>>
  /\ UNCHANGED <<respVars, storeVars, newVars>>

\* a set_pool that registers nothing
set_pool_Skip(pools, conn) ==
  pools

\* Connection::set_pool: POOL.write().insert(*self, pool)
set_pool(pools, conn) ==
  Registry_insert(pools, conn, [manager |-> conn])

\* connect, lines 56-66: r2d2::Pool::new fails (the error is returned), or
\* the pool is built and conn.set_pool registers it
ConnectSetPool(k) ==
  /\ cpc[k] = "pool"
  /\ \E poolOk \in BOOLEAN :
       IF poolOk THEN /\ POOL' = set_pool(POOL, k)
                      /\ cpc' = [cpc EXCEPT ![k] = "maintain"]
       ELSE /\ cpc' = [cpc EXCEPT ![k] = "err_pool"]
            /\ UNCHANGED POOL
  /\ UNCHANGED <<CONFIG, configLock, cidx, mpc, mcur, ready, nitems, nsubs, run>>
  /\ UNCHANGED <<respVars, storeVars, newVars>>

\* a reset_cluster that drops the Config instead of emptying its cluster
reset_cluster_Remove(cfg, conn) ==
  [c \in (DOMAIN cfg) \ {conn} |-> cfg[c]]

\* Connection::reset_cluster: the cluster of the Config, when registered,
\* becomes empty
reset_cluster(cfg, conn) ==
  IF conn \in DOMAIN cfg THEN [cfg EXCEPT ![conn].cluster = <<>>] ELSE cfg

\* Connection::maintain, lines 302-349: reset_cluster (under CONFIG's write
\* lock), the signal channel is created and the maintainer thread spawned
ConnectMaintain(k) ==
  /\ cpc[k] = "maintain"
  /\ configLock = None
  /\ CONFIG' = reset_cluster(CONFIG, k)
  /\ mpc' = [mpc EXCEPT ![k] = "subscribe"]
  /\ cpc' = [cpc EXCEPT ![k] = "wait"]
  /\ UNCHANGED <<POOL, configLock, cidx, mcur, ready, nitems, nsubs, run>>
  /\ UNCHANGED <<respVars, storeVars, newVars>>

\* Connection::maintain, line 351, and connect, line 69.  rx is an
\* mpsc::Receiver, a Stream (the Future trait is not even imported), so
\* rx.wait() is Stream::wait: it builds the blocking iterator (the one line
\* 315 iterates over) and pulls no item; `let _ =` drops it at once.  The
\* statement never blocks and connect returns Ok(conn).
ConnectReturn(k) ==
  /\ cpc[k] = "wait"
  /\ cpc' = [cpc EXCEPT ![k] = "ok"]
  /\ UNCHANGED <<CONFIG, POOL, configLock, cidx, mpc, mcur, ready, nitems, nsubs, run>>
  /\ UNCHANGED <<respVars, storeVars, newVars>>

\* ------------------------------------------------------------------------
\* run
\* ------------------------------------------------------------------------
\* run, lines 76-93, with a missing handle sent on to the POOL lookup
run_args_NoConnCheck(clientOk, argOk, conn) ==
  IF ~clientOk THEN "err_client"
  ELSE IF ~argOk THEN "err_arg"
  ELSE "lookup"

\* run, lines 76-93: the client's own error, the argument's error, then
\* "`run` requires a connection" when arg.pool is None
run_args(clientOk, argOk, conn) ==
  IF ~clientOk THEN "err_client"
  ELSE IF ~argOk THEN "err_arg"
  ELSE IF conn = NoConn THEN "err_conn_required"
  ELSE "lookup"

\* a POOL lookup that reports a miss as a missing connection argument
run_pool_Conflated(pools, conn) ==
  IF conn \in DOMAIN pools THEN "cfg" ELSE "err_conn_required"

\* run, lines 94-100: POOL.read().get(&conn), a miss is
\* "bug: connection not in POOL"
run_pool(pools, conn) ==
  IF conn \in DOMAIN pools THEN "cfg" ELSE "err_not_in_pool"

\* run, lines 101-106: CONFIG.read().get(&conn), a miss is the I/O error
\* "a tokio handle is required"
run_config(cfg, conn) ==
  IF conn \in DOMAIN cfg THEN "ok" ELSE "err_tokio_handle"

RunIdle ==
  [pc |-> "idle", clientOk |-> TRUE, argOk |-> TRUE, conn |-> NoConn,
   res |-> "none", cfg |-> None, chan |-> FALSE, worker |-> FALSE, resp |-> FALSE]

\* the user thread calls run: lines 76-100, up to the POOL lookup
RunCall ==
  /\ run.pc = "idle"
  /\ \E clientOk, argOk \in BOOLEAN, conn \in {NoConn} \cup Conns :
       LET a == run_args(clientOk, argOk, conn)
           r == IF a = "lookup" THEN run_pool(POOL, conn) ELSE a
       IN run' = [RunIdle EXCEPT !.pc = IF r = "cfg" THEN "cfg" ELSE "ret",
                                 !.clientOk = clientOk, !.argOk = argOk,
                                 !.conn = conn,
                                 !.res = IF r = "cfg" THEN "none" ELSE r]
  /\ UNCHANGED <<CONFIG, POOL, configLock, cpc, cidx, mpc, mcur, ready, nitems, nsubs>>
  /\ UNCHANGED <<respVars, storeVars, newVars>>

\* a run that reads CONFIG without taking its lock
RunConfig_NoLock ==
  /\ run.pc = "cfg"
  /\ LET r == run_config(CONFIG, run.conn) IN
       run' = [run EXCEPT !.pc = "ret", !.res = r,
                          !.cfg = IF r = "ok" THEN Some(CONFIG[run.conn]) ELSE None,
                          !.chan = (r = "ok"), !.worker = (r = "ok"),
                          !.resp = (r = "ok")]
  /\ UNCHANGED <<CONFIG, POOL, configLock, cpc, cidx, mpc, mcur, ready, nitems, nsubs>>
  /\ UNCHANGED <<respVars, storeVars, newVars>>

\* run, lines 101-128: the CONFIG lookup (its read lock waits for a
\* writer) and the clone of the Config, then the channel, the worker thread
\* that owns the clone, and the Response
RunConfig ==
  /\ run.pc = "cfg"
  /\ configLock = None
  /\ LET r == run_config(CONFIG, run.conn) IN
       run' = [run EXCEPT !.pc = "ret", !.res = r,
                          !.cfg = IF r = "ok" THEN Some(CONFIG[run.conn]) ELSE None,
                          !.chan = (r = "ok"), !.worker = (r = "ok"),
                          !.resp = (r = "ok")]
  /\ UNCHANGED <<CONFIG, POOL, configLock, cpc, cidx, mpc, mcur, ready, nitems, nsubs>>
  /\ UNCHANGED <<respVars, storeVars, newVars>>

\* ------------------------------------------------------------------------
\* The maintainer thread of connection c
\* ------------------------------------------------------------------------
NoServer == Server_new("", <<>>)

\* an insert under the first address of the server instead of its name
apply_new_val_ByAddress(cluster, server) ==
  OrderMap_insert(cluster, IF server.addresses = <<>> THEN "" ELSE server.addresses[1], server)

\* line 332: cluster.insert(server.name.to_owned(), server)
apply_new_val(cluster, server) ==
  OrderMap_insert(cluster, server.name, server)

\* line 335: cluster.remove(&status.name)
apply_old_val(cluster, status) ==
  OrderMap_remove(cluster, status.name)

\* lines 312-314, first half of query.run(conn): the POOL lookup; an Err
\* makes unwrap panic and ends the thread
MaintainSubscribe(c) ==
  /\ mpc[c] = "subscribe"
  /\ nsubs < MaxSubs
  /\ mpc' = [mpc EXCEPT ![c] =
               IF run_pool(POOL, c) = "cfg" THEN "sub_cfg" ELSE "panicked"]
  /\ nsubs' = nsubs + 1
  /\ UNCHANGED <<CONFIG, POOL, configLock, cpc, cidx, mcur, ready, nitems, run>>
  /\ UNCHANGED <<respVars, storeVars, newVars>>

\* lines 312-314, second half of query.run(conn): the CONFIG lookup, then
\* the Response `changes` is returned
MaintainSubscribed(c) ==
  /\ mpc[c] = "sub_cfg"
  /\ configLock = None
  /\ mpc' = [mpc EXCEPT ![c] =
               IF run_config(CONFIG, c) = "ok" THEN "iterate" ELSE "panicked"]
  /\ UNCHANGED <<CONFIG, POOL, configLock, cpc, cidx, mcur, ready, nitems, nsubs, run>>
  /\ UNCHANGED <<respVars, storeVars, newVars>>

\* lines 317-337: the next item is Ok(Some(Document::Expected(change))).
\* CONFIG.write() is taken (the guard lives to the end of the `if let`).
\* With new_val the Server is built and Server::set_latency starts; with
\* old_val only the name is removed; the guard is dropped when nothing is
\* left to do
MaintainChange(c) ==
  /\ mpc[c] = "iterate"
  /\ nitems < MaxItems
  /\ configLock = None
  /\ nitems' = nitems + 1
  /\ \E change \in Changes(FeedNames) :
       IF c \notin DOMAIN CONFIG
       THEN UNCHANGED <<CONFIG, configLock, mpc, mcur>>
       ELSE IF change.new_val # None
       THEN LET status == change.new_val[1] IN
              /\ mcur' = [mcur EXCEPT ![c] = Server_new(status.name, status.addresses)]
              /\ mpc' = [mpc EXCEPT ![c] = "probe"]
              /\ configLock' = <<"maintain", c>>
              /\ UNCHANGED CONFIG
       ELSE IF change.old_val # None
       THEN /\ CONFIG' = [CONFIG EXCEPT ![c].cluster =
                            apply_old_val(@, change.old_val[1])]
            /\ UNCHANGED <<configLock, mpc, mcur>>
       ELSE UNCHANGED <<CONFIG, configLock, mpc, mcur>>
  /\ UNCHANGED <<POOL, cpc, cidx, ready, nsubs, run>>
  /\ UNCHANGED <<respVars, storeVars, newVars>>

\* lines 331-333: server.set_latency() finishes, the server is inserted
\* under its name, line 333 is executed and the write guard is dropped.
\* tx.clone().send(()) only builds the Send future, which `let _ =` drops
\* unpolled: ready records that the line was executed
MaintainInsert(c) ==
  /\ mpc[c] = "probe"
  /\ configLock = <<"maintain", c>>
  /\ \E server \in Server_set_latency(mcur[c]) :
       CONFIG' = [CONFIG EXCEPT ![c].cluster = apply_new_val(@, server)]
  /\ ready' = [ready EXCEPT ![c] = TRUE]
  /\ mcur' = [mcur EXCEPT ![c] = NoServer]
  /\ mpc' = [mpc EXCEPT ![c] = "iterate"]
  /\ configLock' = None
  /\ UNCHANGED <<POOL, cpc, cidx, nitems, nsubs, run>>
  /\ UNCHANGED <<respVars, storeVars, newVars>>

\* lines 339-344: the next item is Ok(None), an unexpected document or an
\* Err; it is printed and the loop goes on
MaintainSkip(c) ==
  /\ mpc[c] = "iterate"
  /\ nitems < MaxItems
  /\ nitems' = nitems + 1
  /\ UNCHANGED <<CONFIG, POOL, configLock, cpc, cidx, mpc, mcur, ready, nsubs, run>>
  /\ UNCHANGED <<respVars, storeVars, newVars>>

\* line 315: changes.wait() yields no further item, the for loop ends
MaintainStreamEnd(c) ==
  /\ mpc[c] = "iterate"
  /\ mpc' = [mpc EXCEPT ![c] = "sleep"]
  /\ UNCHANGED <<CONFIG, POOL, configLock, cpc, cidx, mcur, ready, nitems, nsubs, run>>
  /\ UNCHANGED <<respVars, storeVars, newVars>>

\* a sleep after which the thread leaves the loop
MaintainSleep_Exit(c) ==
  /\ mpc[c] = "sleep"
  /\ mpc' = [mpc EXCEPT ![c] = "ended"]
  /\ UNCHANGED <<CONFIG, POOL, configLock, cpc, cidx, mcur, ready, nitems, nsubs, run>>
  /\ UNCHANGED <<respVars, storeVars, newVars>>

\* line 347: thread::sleep(500ms) returns and the loop starts over
MaintainSleep(c) ==
  /\ mpc[c] = "sleep"
  /\ mpc' = [mpc EXCEPT ![c] = "subscribe"]
  /\ UNCHANGED <<CONFIG, POOL, configLock, cpc, cidx, mcur, ready, nitems, nsubs, run>>
  /\ UNCHANGED <<respVars, storeVars, newVars>>

\* ------------------------------------------------------------------------
\* The body of the maintainer's loop on one cluster taken alone
\* ------------------------------------------------------------------------
NoChange == [new_val |-> None, old_val |-> None]

\* the cluster as reset_cluster leaves it, no record applied yet
StoreNew ==
  /\ store = <<>>
  /\ storePrev = <<>>
  /\ applied = NoChange
  /\ napplied = 0

\* lines 321-333: a record with new_val is applied
StoreAdded ==
  /\ napplied < MaxApply
  /\ \E change \in Changes(Names) :
       /\ change.new_val # None
       /\ LET status == change.new_val[1] IN
            \E server \in Server_set_latency(Server_new(status.name, status.addresses)) :
               store' = apply_new_val(store, server)
       /\ applied' = change
  /\ storePrev' = store
  /\ napplied' = napplied + 1
  /\ UNCHANGED <<respVars, regVars, newVars>>

\* lines 334-336: a record with old_val and no new_val is applied
StoreRemoved ==
  /\ napplied < MaxApply
  /\ \E change \in Changes(Names) :
       /\ change.new_val = None
       /\ change.old_val # None
       /\ store' = apply_old_val(store, change.old_val[1])
       /\ applied' = change
  /\ storePrev' = store
  /\ napplied' = napplied + 1
  /\ UNCHANGED <<respVars, regVars, newVars>>

\* a record with neither value changes nothing
StoreIgnored ==
  /\ napplied < MaxApply
  /\ applied' = NoChange
  /\ storePrev' = store
  /\ napplied' = napplied + 1
  /\ UNCHANGED store
  /\ UNCHANGED <<respVars, regVars, newVars>>

NextStore == StoreAdded \/ StoreRemoved \/ StoreIgnored

\* ------------------------------------------------------------------------
\* Wire framing: write_query and read_query on one Session
\* ------------------------------------------------------------------------
\* the little-endian bytes of n, w of them (WriteBytesExt with LittleEndian)
RECURSIVE LE(_, _)
LE(n, w) ==
  IF w = 0 THEN <<>> ELSE <<n % 256>> \o LE(n \div 256, w - 1)

\* the number whose little-endian bytes are b
RECURSIVE FromLE(_)
FromLE(b) ==
  IF b = <<>> THEN 0 ELSE b[1] + 256 * FromLE(Tail(b))

\* the session id (u64) the handshake has assigned
Tokens == {258}
\* a usize is kept as its 8 little-endian bytes: byte counts up to and
\* beyond u32::MAX (the last is 2^32 + 5)
QueryLens == {LE(0, 8), LE(5, 8), LE(300, 8), [LE(5, 8) EXCEPT ![5] = 1]}
\* a query text: its bytes (left abstract) and their number
Queries == [text : {"q"}, len : QueryLens]

\* `len as u32`: the low 4 bytes of the usize
as_u32(len) == SubSeq(len, 1, 4)
\* a u32 widened back to a byte count
u32_to_usize(b) == b \o <<0, 0, 0, 0>>

Item(kind, bytes) == [kind |-> kind, bytes |-> bytes]

\* write_query(conn, query): the sub-operations are write_u64(token),
\* write_u32(len as u32), write_all(query) and flush; `fail` is the one that
\* returns an I/O error (0: none does).  A failure sets broken and returns
\* at once.  The session, the result and what went to the stream.
write_query(conn, query, fail) ==
  LET token == Item("u64", LE(conn.id, 8))
      len == Item("u32", as_u32(query.len))
      payload == Item("payload", query.len)
      flush == Item("flush", <<>>)
  IN CASE fail = 1 -> [conn |-> [conn EXCEPT !.broken = TRUE], ok |-> FALSE, wrote |-> <<>>]
       [] fail = 2 -> [conn |-> [conn EXCEPT !.broken = TRUE], ok |-> FALSE, wrote |-> <<token>>]
       [] fail = 3 -> [conn |-> [conn EXCEPT !.broken = TRUE], ok |-> FALSE, wrote |-> <<token, len>>]
       [] fail = 4 -> [conn |-> [conn EXCEPT !.broken = TRUE], ok |-> FALSE,
                       wrote |-> <<token, len, payload>>]
       [] OTHER -> [conn |-> conn, ok |-> TRUE, wrote |-> <<token, len, payload, flush>>]

\* read_query(conn): the sub-operations are read_u64, read_u32 and
\* read_exact; `fail` is the one that returns an I/O error (0: none does).
\* A failure sets broken and returns at once; nothing is written.
read_query(conn, fail) ==
  IF fail \in 1..3
  THEN [conn |-> [conn EXCEPT !.broken = TRUE], ok |-> FALSE, wrote |-> <<>>]
  ELSE [conn |-> conn, ok |-> TRUE, wrote |-> <<>>]

NoQuery == [text |-> "", len |-> LE(0, 8)]

\* a Session as the handshake hands it over: an id, not broken, nothing
\* written yet
SessionNew ==
  /\ session \in [id : Tokens, broken : {FALSE}]
  /\ wire = <<>>
  /\ lastIO = [op |-> "none", query |-> NoQuery, fail |-> 0, ok |-> TRUE, wrote |-> <<>>]
  /\ ncalls = 0

\* a caller holding the session calls write_query
WriteQuery ==
  /\ ncalls < MaxCalls
  /\ \E query \in Queries, fail \in 0..4 :
       LET r == write_query(session, query, fail) IN
         /\ session' = r.conn
         /\ wire' = wire \o r.wrote
         /\ lastIO' = [op |-> "write", query |-> query, fail |-> fail,
                       ok |-> r.ok, wrote |-> r.wrote]
  /\ ncalls' = ncalls + 1
  /\ UNCHANGED <<respVars, regVars, storeVars, optcall, envelope, feedVars>>

\* a caller holding the session calls read_query
ReadQuery ==
  /\ ncalls < MaxCalls
  /\ \E fail \in 0..3 :
       LET r == read_query(session, fail) IN
         /\ session' = r.conn
         /\ wire' = wire \o r.wrote
         /\ lastIO' = [op |-> "read", query |-> NoQuery, fail |-> fail,
                       ok |-> r.ok, wrote |-> r.wrote]
  /\ ncalls' = ncalls + 1
  /\ UNCHANGED <<respVars, regVars, storeVars, optcall, envelope, feedVars>>

NextFrame == WriteQuery \/ ReadQuery

\* ------------------------------------------------------------------------
\* The options of connect, as set_config reads them
\* ------------------------------------------------------------------------
\* Datum as far as the readers look at it: its type tag and the r_str and
\* r_bool fields, which hold the protobuf defaults unless the tag sets them
DatumStr(s) == [type |-> "R_STR", r_str |-> s, r_bool |-> FALSE]
DatumBool(b) == [type |-> "R_BOOL", r_str |-> "", r_bool |-> b]
DatumNum == [type |-> "R_NUM", r_str |-> "", r_bool |-> FALSE]

\* a Term is a datum or has argument terms
TermDatum(d) == [datum |-> Some(d), args |-> <<>>]
TermArgs(ts) == [datum |-> None, args |-> ts]

\* the option values a caller passes: a string, a boolean, a number and
\* arrays of them
OptionTerms ==
  {TermDatum(DatumStr("h1")), TermDatum(DatumBool(TRUE)), TermDatum(DatumNum),
   TermArgs(<<>>),
   TermArgs(<<TermDatum(DatumStr("h1"))>>),
   TermArgs(<<TermDatum(DatumNum)>>),
   TermArgs(<<TermDatum(DatumStr("h1")), TermDatum(DatumStr("h2"))>>)}
OptionKeys == {"db", "user", "password", "reproducible", "servers", "other"}
OptArgs == [key : OptionKeys, val : OptionTerms]
OptArgLists == UNION {[1..n -> OptArgs] : n \in 1..MaxOptargs}

\* find_datum: the datum of the term, or else the datums of its arguments,
\* in order
RECURSIVE find_datum(_)
RECURSIVE find_datum_args(_)
find_datum(term) ==
  IF term.datum # None THEN <<term.datum[1]>> ELSE find_datum_args(term.args)
find_datum_args(ts) ==
  IF ts = <<>> THEN <<>> ELSE find_datum(Head(ts)) \o find_datum_args(Tail(ts))

TakeOk(v) == [ok |-> TRUE, val |-> Some(v), err |-> None]
TakeErr(key, what) == [ok |-> FALSE, val |-> None, err |-> Some([key |-> key, must_be |-> what])]

\* take_string: the r_str field of the first datum, whatever its type;
\* an error only when there is no datum
take_string(key, val) ==
  IF val # <<>> THEN TakeOk(val[1].r_str) ELSE TakeErr(key, "a string")

\* take_bool: the r_bool field of the first datum, whatever its type;
\* an error only when there is no datum
take_bool(key, val) ==
  IF val # <<>> THEN TakeOk(val[1].r_bool) ELSE TakeErr(key, "a boolean")

\* Opts::default()
Opts_default == [db |-> "test", user |-> "admin", password |-> "", reproducible |-> FALSE]

\* key "servers": take_string(&key, vec![host]) for each datum in turn,
\* pushed on hosts; the first error ends the loop
RECURSIVE take_hosts(_, _, _)
take_hosts(key, val, hosts) ==
  IF val = <<>> THEN [ok |-> TRUE, hosts |-> hosts, err |-> None]
  ELSE LET r == take_string(key, <<Head(val)>>) IN
         IF r.ok THEN take_hosts(key, Tail(val), Append(hosts, r.val[1]))
         ELSE [ok |-> FALSE, hosts |-> hosts, err |-> r.err]

\* set_config, lines 253-271: the loop over the optargs from acc on; the
\* first error returns
RECURSIVE read_optargs(_, _)
read_optargs(optargs, acc) ==
  IF optargs = <<>> THEN acc
  ELSE LET key == Head(optargs).key
           val == find_datum(Head(optargs).val)
           rest == Tail(optargs)
       IN IF key \in {"db", "user", "password"}
          THEN LET r == take_string(key, val) IN
                 IF r.ok
                 THEN read_optargs(rest, [acc EXCEPT !.opts = [acc.opts EXCEPT ![key] = r.val[1]]])
                 ELSE [acc EXCEPT !.ok = FALSE, !.err = r.err]
          ELSE IF key = "reproducible"
          THEN LET r == take_bool(key, val) IN
                 IF r.ok
                 THEN read_optargs(rest, [acc EXCEPT !.opts = [acc.opts EXCEPT ![key] = r.val[1]]])
                 ELSE [acc EXCEPT !.ok = FALSE, !.err = r.err]
          ELSE IF key = "servers"
          THEN LET r == take_hosts(key, val, acc.hosts) IN
                 IF r.ok
                 THEN read_optargs(rest, [acc EXCEPT !.hosts = r.hosts])
                 ELSE [acc EXCEPT !.ok = FALSE, !.err = r.err]
          ELSE read_optargs(rest, acc)

OptsStart == [ok |-> TRUE, err |-> None, opts |-> Opts_default, hosts |-> <<>>]

NoOptCall == [pc |-> "idle", optargs |-> <<>>, read |-> OptsStart]

\* connect with a client, a term and a handle in order, up to the return
\* of conn.set_config: the optargs are read, the hosts resolved and the
\* Config inserted
ConnectOptions ==
  /\ optcall.pc = "idle"
  /\ cpc[1] = "idle"
  /\ \E optargs \in OptArgLists, resolveOk \in BOOLEAN :
       LET read == read_optargs(optargs, OptsStart)
           r == set_config(CONFIG, 1, read.hosts, read.ok, resolveOk)
       IN /\ cpc' = [cpc EXCEPT ![1] = r.pc]
          /\ CONFIG' = r.CONFIG
          /\ optcall' = [pc |-> "called", optargs |-> optargs, read |-> read]
  /\ UNCHANGED <<POOL, configLock, cidx, mpc, mcur, ready, nitems, nsubs, run>>
  /\ UNCHANGED <<respVars, storeVars, frameVars, envelope, feedVars>>

NextOptions == ConnectOptions

\* ------------------------------------------------------------------------
\* The query envelope: wrap_query
\* ------------------------------------------------------------------------
\* a String is the sequence of its characters
Str_open == <<"[">>
Str_close == <<"]">>
Str_comma == <<",">>
Digits == <<"0", "1", "2", "3", "4", "5", "6", "7", "8", "9">>

\* format!("{}", n) of a non-negative integer: its decimal digits
RECURSIVE Format(_)
Format(n) ==
  IF n < 10 THEN <<Digits[n + 1]>> ELSE Format(n \div 10) \o <<Digits[(n % 10) + 1]>>

\* QueryType::value(): START, CONTINUE, STOP, NOREPLY_WAIT, SERVER_INFO
QueryTypes == 1..5
\* compiled terms and options as the callers serialise them (JSON texts,
\* with commas and brackets inside arrays, objects and string literals)
TermTexts == {<<"7">>,
              <<"[", "1", ",", "[", "2", "]", "]">>,
              <<"\"", ",", "]", "\"">>,
              <<"[", "1", "5", ",", "[", "\"", "t", "\"", "]", "]">>}
OptionTexts == {<<"{", "}">>,
                <<"{", "\"", "d", "\"", ":", "1", "}">>,
                <<"{", "\"", "a", "\"", ":", "1", ",", "\"", "b", "\"", ":", "[", "2", ",", "3", "]", "}">>,
                <<"{", "\"", "s", "\"", ":", "\"", "]", ",", "\"", "}">>}

\* a wrap_query that pushes the options before the query
wrap_query_OptionsFirst(query_type, query, options) ==
  LET a == Str_open \o Format(query_type)
      b == IF options # None THEN a \o Str_comma \o options[1] ELSE a
      c == IF query # None THEN b \o Str_comma \o query[1] ELSE b
  IN c \o Str_close

\* wrap_query(query_type, query, options): "[" and the type code, then
\* "," and the query when there is one, then "," and the options when
\* there are some, then "]"
wrap_query(query_type, query, options) ==
  LET a == Str_open \o Format(query_type)
      b == IF query # None THEN a \o Str_comma \o query[1] ELSE a
      c == IF options # None THEN b \o Str_comma \o options[1] ELSE b
  IN c \o Str_close

NoEnvelope == [pc |-> "idle", query_type |-> 1, query |-> None, options |-> None, text |-> <<>>]

\* a caller wraps a query
WrapQuery ==
  /\ \E query_type \in QueryTypes,
        query \in {None} \cup {Some(t) : t \in TermTexts},
        options \in {None} \cup {Some(o) : o \in OptionTexts} :
       envelope' = [pc |-> "wrapped", query_type |-> query_type, query |-> query,
                    options |-> options,
                    text |-> wrap_query(query_type, query, options)]
  /\ UNCHANGED <<respVars, regVars, storeVars, frameVars, optcall, feedVars>>

NextEnvelope == WrapQuery

\* the reference decoder of the envelope: the elements of a JSON array,
\* split at the commas that are neither nested nor inside a string literal
RECURSIVE SplitTop(_, _, _, _, _)
SplitTop(s, i, depth, inStr, acc) ==
  IF i > Len(s) THEN acc
  ELSE LET ch == s[i]
           more == [acc EXCEPT ![Len(acc)] = Append(@, ch)]
       IN IF inStr THEN SplitTop(s, i + 1, depth, ch # "\"", more)
          ELSE IF ch = "\"" THEN SplitTop(s, i + 1, depth, TRUE, more)
          ELSE IF ch \in {"[", "{"} THEN SplitTop(s, i + 1, depth + 1, FALSE, more)
          ELSE IF ch \in {"]", "}"} THEN SplitTop(s, i + 1, depth - 1, FALSE, more)
          ELSE IF ch = "," /\ depth = 0 THEN SplitTop(s, i + 1, 0, FALSE, Append(acc, <<>>))
          ELSE SplitTop(s, i + 1, depth, FALSE, more)

\* the decoded list; an element that is empty (a leading, doubled or
\* trailing comma) or missing brackets make the text invalid
Decode(text) ==
  IF Len(text) < 2 \/ text[1] # "[" \/ text[Len(text)] # "]"
  THEN [ok |-> FALSE, elems |-> <<>>]
  ELSE LET elems == SplitTop(SubSeq(text, 2, Len(text) - 1), 1, 0, FALSE, <<<<>>>>) IN
         [ok |-> \A i \in DOMAIN elems : elems[i] # <<>>, elems |-> elems]

\* the number a decimal text denotes, -1 when it is not one
RECURSIVE ParseInt(_)
ParseInt(t) ==
  IF t = <<>> \/ \E i \in DOMAIN t : t[i] \notin {Digits[d] : d \in 1..10} THEN -1
  ELSE LET units == (CHOOSE d \in 1..10 : Digits[d] = t[Len(t)]) - 1 IN
         IF Len(t) = 1 THEN units ELSE 10 * ParseInt(SubSeq(t, 1, Len(t) - 1)) + units

\* ------------------------------------------------------------------------
\* The maintainer's store against the membership the feed reports
\* ------------------------------------------------------------------------
\* the servers that are members of the cluster at one time or another
FeedNodes == {"n1", "n2", "n3"}
\* the server_status row of member n as the feed sends it
StatusOf(n) == [name |-> n, addresses |-> <<"a1">>]

\* lines 316-337: one change record applied to the cluster; new_val is
\* looked at first and old_val only when there is no new_val
apply_change(cluster, change) ==
  IF change.new_val # None
  THEN apply_new_val(cluster, Server_new(change.new_val[1].name, change.new_val[1].addresses))
  ELSE IF change.old_val # None
  THEN apply_old_val(cluster, change.old_val[1])
  ELSE cluster

\* line 315: the records of a batch applied in order
RECURSIVE apply_batch(_, _)
apply_batch(cluster, changes) ==
  IF changes = <<>> THEN cluster
  ELSE apply_batch(apply_change(cluster, Head(changes)), Tail(changes))

\* the orders in which include_initial can report the members
Orders(ms) ==
  {o \in [1..Cardinality(ms) -> ms] : \A i, j \in DOMAIN o : o[i] = o[j] => i = j}

FeedNew == [up |-> FALSE, events |-> 0]

\* a server joins while the feed is up: {new_val} is delivered and applied
FeedJoin ==
  /\ feed.up /\ feed.events < MaxEvents
  /\ \E n \in FeedNodes \ members :
       /\ members' = members \cup {n}
       /\ store' = apply_change(store, [new_val |-> Some(StatusOf(n)), old_val |-> None])
  /\ feed' = [feed EXCEPT !.events = @ + 1]
  /\ UNCHANGED <<storePrev, applied, napplied>>
  /\ UNCHANGED <<respVars, regVars, frameVars, optcall, envelope>>

\* a server leaves while the feed is up (another one stays to serve the
\* feed): {old_val} is delivered and applied
FeedLeave ==
  /\ feed.up /\ feed.events < MaxEvents
  /\ Cardinality(members) > 1
  /\ \E n \in members :
       /\ members' = members \ {n}
       /\ store' = apply_change(store, [new_val |-> None, old_val |-> Some(StatusOf(n))])
  /\ feed' = [feed EXCEPT !.events = @ + 1]
  /\ UNCHANGED <<storePrev, applied, napplied>>
  /\ UNCHANGED <<respVars, regVars, frameVars, optcall, envelope>>

\* the row of a member is updated while the feed is up, its name kept or
\* changed: {old_val, new_val} is delivered and applied
FeedUpdate ==
  /\ feed.up /\ feed.events < MaxEvents
  /\ \E n \in members :
     \E n2 \in (FeedNodes \ members) \cup {n} :
       /\ members' = (members \ {n}) \cup {n2}
       /\ store' = apply_change(store, [new_val |-> Some(StatusOf(n2)),
                                        old_val |-> Some(StatusOf(n))])
  /\ feed' = [feed EXCEPT !.events = @ + 1]
  /\ UNCHANGED <<storePrev, applied, napplied>>
  /\ UNCHANGED <<respVars, regVars, frameVars, optcall, envelope>>

\* line 315: changes.wait() ends, the feed is down until line 312 runs again
FeedDown ==
  /\ feed.up /\ feed.events < MaxEvents
  /\ feed' = [up |-> FALSE, events |-> feed.events + 1]
  /\ UNCHANGED <<members, storeVars>>
  /\ UNCHANGED <<respVars, regVars, frameVars, optcall, envelope>>

\* the membership changes while the feed is down; no record is delivered
FeedMissed ==
  /\ ~feed.up /\ feed.events < MaxEvents
  /\ \E ms \in SUBSET FeedNodes : ms # {} /\ ms # members /\ members' = ms
  /\ feed' = [feed EXCEPT !.events = @ + 1]
  /\ UNCHANGED storeVars
  /\ UNCHANGED <<respVars, regVars, frameVars, optcall, envelope>>

\* lines 312-337: the query is run again with include_initial; the initial
\* batch, one {new_val} for each member, is applied to the cluster as it is
FeedSubscribe ==
  /\ ~feed.up /\ feed.events < MaxEvents
  /\ \E o \in Orders(members) :
       store' = apply_batch(store, [i \in DOMAIN o |->
                                      [new_val |-> Some(StatusOf(o[i])), old_val |-> None]])
  /\ feed' = [up |-> TRUE, events |-> feed.events + 1]
  /\ UNCHANGED <<members, storePrev, applied, napplied>>
  /\ UNCHANGED <<respVars, regVars, frameVars, optcall, envelope>>

NextFeed ==
  FeedJoin \/ FeedLeave \/ FeedUpdate \/ FeedDown \/ FeedMissed \/ FeedSubscribe

OthersNew ==
  /\ optcall = NoOptCall
  /\ envelope = NoEnvelope
  /\ members = {"n1"}
  /\ feed = FeedNew

\* ------------------------------------------------------------------------
\* Specifications
\* ------------------------------------------------------------------------
\* the registries as lazy_static! builds them, no call made yet
RegistryNew ==
  /\ CONFIG = <<>>
  /\ POOL = <<>>
  /\ configLock = None
  /\ cpc = [k \in Conns |-> "idle"]
  /\ cidx = [k \in Conns |-> 0]
  /\ mpc = [k \in Conns |-> "none"]
  /\ mcur = [k \in Conns |-> NoServer]
  /\ ready = [k \in Conns |-> FALSE]
  /\ nitems = 0
  /\ nsubs = 0
  /\ run = RunIdle

Init == ResponseNew /\ RegistryNew /\ StoreNew /\ SessionNew /\ OthersNew

Next ==
  \/ \E k \in Conns : ConnectSetConfig(k)
  \/ \E k \in Conns : ConnectSetLatency(k)
  \/ \E k \in Conns : ConnectProbe(k)
  \/ \E k \in Conns : ConnectSetPool(k)
  \/ \E k \in Conns : ConnectMaintain(k)
  \/ \E k \in Conns : ConnectReturn(k)
  \/ \E c \in Conns : MaintainSubscribe(c)
  \/ \E c \in Conns : MaintainSubscribed(c)
  \/ \E c \in Conns : MaintainChange(c)
  \/ \E c \in Conns : MaintainInsert(c)
  \/ \E c \in Conns : MaintainSkip(c)
  \/ \E c \in Conns : MaintainStreamEnd(c)
  \/ \E c \in Conns : MaintainSleep(c)

Spec == Init /\ [][Next]_vars

\* run reads the registries and writes nothing: the user thread calling run
\* while connect calls are in progress.  The maintainer threads neither add
\* nor remove a key of CONFIG or POOL and are left unscheduled here.
NextRun ==
  \/ \E k \in Conns : ConnectSetConfig(k)
  \/ \E k \in Conns : ConnectSetLatency(k)
  \/ \E k \in Conns : ConnectProbe(k)
  \/ \E k \in Conns : ConnectSetPool(k)
  \/ \E k \in Conns : ConnectMaintain(k)
  \/ \E k \in Conns : ConnectReturn(k)
  \/ RunCall
  \/ RunConfig

SpecRun == Init /\ [][NextRun]_vars

\* one connect call and the maintainer thread it starts
NextMaintain ==
  \/ ConnectSetConfig(1)
  \/ ConnectSetLatency(1)
  \/ ConnectProbe(1)
  \/ ConnectSetPool(1)
  \/ ConnectMaintain(1)
  \/ ConnectReturn(1)
  \/ MaintainSubscribe(1)
  \/ MaintainSubscribed(1)
  \/ MaintainChange(1)
  \/ MaintainInsert(1)
  \/ MaintainSkip(1)
  \/ MaintainStreamEnd(1)
  \/ MaintainSleep(1)

\* the maintainer thread is scheduled: thread::sleep returns after its
\* 500ms and the thread then runs the query again; Server::set_latency
\* returns (TcpStream::connect fails or succeeds in the end)
FairMaintain ==
  /\ WF_vars(MaintainSleep(1))
  /\ WF_vars(MaintainSubscribe(1))
  /\ WF_vars(MaintainSubscribed(1))
  /\ WF_vars(MaintainInsert(1))

SpecMaintainFair == Init /\ [][NextMaintain]_vars /\ FairMaintain

\* a run call of the user thread beside one connect call and its
\* maintainer thread
NextSnapshot == NextMaintain \/ RunCall \/ RunConfig

SpecSnapshot == Init /\ [][NextSnapshot]_vars

SpecStore == Init /\ [][NextStore]_vars

SpecFrame == Init /\ [][NextFrame]_vars

SpecOptions == Init /\ [][NextOptions]_vars

SpecEnvelope == Init /\ [][NextEnvelope]_vars

SpecFeed == Init /\ [][NextFeed]_vars

NextResponse == Poll \/ WorkerSend \/ WorkerDrop

SpecResponse == Init /\ [][NextResponse]_vars

\* ------------------------------------------------------------------------
\* Claims about the Response stream
\* ------------------------------------------------------------------------
\* C1: once poll has returned Ready(None), every later poll returns
\* Ready(None) too and makes no further call of rx.poll().
C1_TerminalIsLatched ==
  [][last.ret = "ReadyNone" => (last'.ret = "ReadyNone" /\ rxPolls' = rxPolls)]_vars

\* a poll made after the terminal Ready(None): it returned Ready(None)
\* again and did not call rx.poll()
C1_Witness ==
  /\ last.ret = "ReadyNone"
  /\ done
  /\ polls >= rxPolls + 2

\* C2: when poll returns an error the worker pushed through the channel,
\* done is set, so that later polls end the stream without polling rx.
C2_WorkerErrorLatchesDone ==
  (last.ret = "Err") => done

\* ------------------------------------------------------------------------
\* Claims about connect and the registries
\* ------------------------------------------------------------------------
\* C3 as stated: in every reachable state a handle is a key of POOL if and
\* only if it is a key of CONFIG.
C3_RegistriesHaveSameKeys ==
  DOMAIN POOL = DOMAIN CONFIG

\* C3 as amended: every key of POOL is a key of CONFIG; a handle whose
\* connect has got past set_pool is a key of both; a handle is a key of
\* CONFIG alone only while its connect is between set_config and set_pool,
\* or after that connect has failed there.
C3_PoolKeysAreConfigKeys ==
  /\ DOMAIN POOL \subseteq DOMAIN CONFIG
  /\ \A k \in Conns :
       cpc[k] \in {"maintain", "wait", "ok"} => (k \in DOMAIN POOL /\ k \in DOMAIN CONFIG)
  /\ \A k \in (DOMAIN CONFIG) \ (DOMAIN POOL) :
       cpc[k] \in {"set_latency", "probe", "pool", "err_latency", "err_pool"}

\* one connect has returned Ok while another handle is registered in
\* CONFIG only
C3_Witness ==
  \E k, j \in Conns :
    /\ cpc[k] = "ok"
    /\ k \in DOMAIN POOL
    /\ j \in DOMAIN CONFIG
    /\ j \notin DOMAIN POOL

\* C4: when connect returns an error, neither CONFIG nor POOL holds an
\* entry for the handle of that call.
C4_FailedConnectLeavesNoEntry ==
  \A k \in Conns :
    cpc[k] \in ConnectErrors => (k \notin DOMAIN CONFIG /\ k \notin DOMAIN POOL)

\* C5: connect has not returned Ok(conn) before the maintainer of conn has
\* applied a record and executed its readiness signal.
C5_ReturnsAfterFirstSignal ==
  \A k \in Conns : cpc[k] = "ok" => ready[k]

\* C6: in the step in which connect returns Ok(conn), the cluster of conn in
\* CONFIG is not empty.
C6_StoreNonEmptyAtReturn ==
  [][\A k \in Conns :
       (cpc[k] = "wait" /\ cpc'[k] = "ok") => CONFIG'[k].cluster # <<>>]_vars

\* TcpStream::connect (line 403) is being attempted by connect call k
ConnectProbing(k) ==
  /\ cpc[k] = "probe"
  /\ CONFIG[k].cluster[cidx[k]].val.addresses # <<>>

\* TcpStream::connect (line 403) is being attempted by maintainer c
MaintainProbing(c) ==
  /\ mpc[c] = "probe"
  /\ mcur[c].addresses # <<>>

\* C9: no thread attempts a TCP connection while it holds CONFIG's write
\* lock.
C9_NoNetworkUnderWriteLock ==
  \A k \in Conns :
    /\ ConnectProbing(k) => configLock # <<"connect", k>>
    /\ MaintainProbing(k) => configLock # <<"maintain", k>>

\* ------------------------------------------------------------------------
\* Claims about run
\* ------------------------------------------------------------------------
\* C7 as stated: run without a connection handle returns the "connection
\* required" error and creates no channel, no thread and no Response.
C7_NoHandleIsConnectionRequired ==
  (run.pc = "ret" /\ run.conn = NoConn) =>
     (run.res = "err_conn_required" /\ ~run.chan /\ ~run.worker /\ ~run.resp)

\* C7 as amended: run without a connection handle returns an error in the
\* call itself, before any lookup, and creates no channel, no thread and no
\* Response; the error is "connection required" when neither the client's
\* term nor the argument's term carries an error, else it is that error.
C7_NoHandleFailsBeforeLookup ==
  /\ run.pc = "cfg" => run.conn # NoConn
  /\ (run.pc = "ret" /\ run.conn = NoConn) =>
       /\ ~run.chan /\ ~run.worker /\ ~run.resp
       /\ run.res = (IF ~run.clientOk THEN "err_client"
                     ELSE IF ~run.argOk THEN "err_arg"
                     ELSE "err_conn_required")

\* run without a handle has returned "connection required" while the
\* registries hold a connection
C7_Witness ==
  /\ run.pc = "ret"
  /\ run.conn = NoConn
  /\ run.res = "err_conn_required"
  /\ DOMAIN POOL # {}

\* C8 as stated: run with a handle missing from POOL or from CONFIG returns
\* the "bug: not registered" error and creates no channel and no thread.
C8_MissIsBugError ==
  (/\ run.pc = "ret"
   /\ run.conn # NoConn
   /\ (run.conn \notin DOMAIN POOL \/ run.conn \notin DOMAIN CONFIG)) =>
     (run.res = "err_not_in_pool" /\ ~run.chan /\ ~run.worker /\ ~run.resp)

\* C8 as amended: when neither the client's term nor the argument's term
\* carries an error, run with a handle missing from POOL or from CONFIG
\* returns "bug: connection not in POOL" and creates no channel, no thread
\* and no Response; run succeeds only for a handle in both registries; the
\* CONFIG lookup never misses, a key of POOL being a key of CONFIG.
C8_MissIsNotInPool ==
  (run.pc = "ret" /\ run.clientOk /\ run.argOk /\ run.conn # NoConn) =>
     /\ (run.conn \notin DOMAIN POOL \/ run.conn \notin DOMAIN CONFIG) =>
           (run.res = "err_not_in_pool" /\ ~run.chan /\ ~run.worker /\ ~run.resp)
     /\ run.res = "ok" => (run.conn \in DOMAIN POOL /\ run.conn \in DOMAIN CONFIG)
     /\ run.res \in {"err_not_in_pool", "ok"}

\* run has returned the bug error for a handle that CONFIG holds and POOL
\* does not
C8_Witness ==
  /\ run.pc = "ret"
  /\ run.res = "err_not_in_pool"
  /\ run.conn \in DOMAIN CONFIG
  /\ run.conn \notin DOMAIN POOL

\* ------------------------------------------------------------------------
\* Claims about the cluster
\* ------------------------------------------------------------------------
\* C10: after a record with new_val has been applied, for the first time or
\* again, the cluster holds exactly one entry for its name, that entry
\* carries the addresses of the record, the keys are those held before plus
\* that name, and every entry of another name is as it was.
C10_AddedIsIdempotent ==
  applied.new_val # None =>
    LET status == applied.new_val[1] IN
      /\ Cardinality({i \in 1..Len(store) : store[i].key = status.name}) = 1
      /\ store[IndexOf(store, status.name)].val.addresses = status.addresses
      /\ Keys(store) = Keys(storePrev) \cup {status.name}
      /\ \A i \in 1..Len(storePrev) :
           storePrev[i].key # status.name => store[i] = storePrev[i]

\* a record with new_val has been applied for a name the cluster already
\* held with other addresses, next to an entry of another name
C10_Witness ==
  /\ applied.new_val # None
  /\ LET status == applied.new_val[1]
         i == IndexOf(storePrev, status.name)
     IN /\ i # 0
        /\ storePrev[i].val.addresses # status.addresses
  /\ Len(store) = 2

\* ------------------------------------------------------------------------
\* Claims about the wire framing
\* ------------------------------------------------------------------------
\* C11: after an I/O failure in write_query or read_query the
\* session is broken, and nothing more is written to a broken session,
\* neither by the failing call nor by a later write_query.
C11_NothingWrittenOnceBroken ==
  [][/\ lastIO'.fail # 0 => session'.broken
     /\ session.broken => wire' = wire]_vars

\* C14: a successful write_query emits the token as 8 little-endian bytes,
\* the length as 4 little-endian bytes, the payload and a flush, in this
\* order, and the length field is the number of payload bytes.
C14_FrameLengthIsPayloadLength ==
  (lastIO.op = "write" /\ lastIO.ok) =>
     /\ Len(lastIO.wrote) = 4
     /\ lastIO.wrote[1].kind = "u64"
     /\ Len(lastIO.wrote[1].bytes) = 8
     /\ FromLE(lastIO.wrote[1].bytes) = session.id
     /\ lastIO.wrote[2].kind = "u32"
     /\ Len(lastIO.wrote[2].bytes) = 4
     /\ lastIO.wrote[3] = Item("payload", lastIO.query.len)
     /\ lastIO.wrote[4].kind = "flush"
     /\ u32_to_usize(lastIO.wrote[2].bytes) = lastIO.query.len

\* ------------------------------------------------------------------------
\* Claims about the options of connect
\* ------------------------------------------------------------------------
\* the option carries a datum of another type than its key expects
WrongType(arg) ==
  \/ /\ arg.key \in {"db", "user", "password", "servers"}
     /\ \E i \in DOMAIN find_datum(arg.val) : find_datum(arg.val)[i].type # "R_STR"
  \/ /\ arg.key = "reproducible"
     /\ \E i \in DOMAIN find_datum(arg.val) : find_datum(arg.val)[i].type # "R_BOOL"

\* C12: when db, user, password or servers carries a value that is not a
\* string, or reproducible one that is not a boolean, connect fails with a
\* configuration error that names the key, and no Config is installed.
C12_WrongTypeIsConfigError ==
  (optcall.pc = "called" /\ \E i \in DOMAIN optcall.optargs : WrongType(optcall.optargs[i])) =>
     /\ cpc[1] = "err_option"
     /\ optcall.read.err # None
     /\ \E i \in DOMAIN optcall.optargs :
          WrongType(optcall.optargs[i]) /\ optcall.optargs[i].key = optcall.read.err[1].key
     /\ 1 \notin DOMAIN CONFIG

\* ------------------------------------------------------------------------
\* Claims about the servers in the cluster stores
\* ------------------------------------------------------------------------
\* C13: every Server in the cluster of any Config has at least one
\* address, whether connect seeded it or the maintainer inserted it.
C13_ServersHaveAddresses ==
  \A c \in DOMAIN CONFIG :
    \A i \in DOMAIN CONFIG[c].cluster : CONFIG[c].cluster[i].val.addresses # <<>>

\* ------------------------------------------------------------------------
\* Claims about the query envelope
\* ------------------------------------------------------------------------
\* C15: decoding the envelope of (Q, T, O) yields [Q, T, O], of (Q, T, none)
\* [Q, T] and of (Q, none, none) [Q]; the envelope has no trailing comma
\* and the type code comes first.
C15_EnvelopeRoundTrips ==
  envelope.pc = "wrapped" =>
    LET d == Decode(envelope.text)
        Q == envelope.query_type
        n == Len(envelope.text)
    IN /\ d.ok
       /\ ParseInt(d.elems[1]) = Q
       /\ SubSeq(envelope.text, 2, 1 + Len(Format(Q))) = Format(Q)
       /\ envelope.text[n - 1] # ","
       /\ (envelope.query # None /\ envelope.options # None) =>
             d.elems = <<Format(Q), envelope.query[1], envelope.options[1]>>
       /\ (envelope.query # None /\ envelope.options = None) =>
             d.elems = <<Format(Q), envelope.query[1]>>
       /\ (envelope.query = None /\ envelope.options = None) =>
             d.elems = <<Format(Q)>>

\* a term and options that both hold commas and brackets were wrapped and
\* decode to three elements
C15_Witness ==
  /\ envelope.pc = "wrapped"
  /\ envelope.query = Some(<<"[", "1", "5", ",", "[", "\"", "t", "\"", "]", "]">>)
  /\ envelope.options = Some(<<"{", "\"", "a", "\"", ":", "1", ",", "\"", "b", "\"", ":", "[", "2", ",", "3", "]", "}">>)
  /\ Len(Decode(envelope.text).elems) = 3

\* ------------------------------------------------------------------------
\* Claims about the store and the cluster membership
\* ------------------------------------------------------------------------
\* C16: once every record delivered so far has been applied, the names in
\* the store are the current members of the cluster, for adds, updates
\* (also with a changed name), removes and across re-subscriptions.
C16_StoreIsMembership ==
  feed.up => {store[i].key : i \in DOMAIN store} = members

\* ------------------------------------------------------------------------
\* Claims about the maintainer's loop
\* ------------------------------------------------------------------------
\* C17: the maintainer never leaves its loop: after an item that is not an
\* expected change record (or is an error) it is at the next item, and
\* after the stream has ended it sleeps and then issues a new subscription.
C17_MaintainerKeepsSubscribing ==
  /\ [](mpc[1] \in {"none", "subscribe", "sub_cfg", "iterate", "probe", "sleep"})
  /\ [][(mpc[1] = "iterate" /\ nitems' # nitems) => mpc'[1] \in {"iterate", "probe"}]_vars
  /\ [][mpc[1] = "sleep" => mpc'[1] \in {"sleep", "subscribe"}]_vars
  /\ (mpc[1] = "sleep" /\ nsubs < MaxSubs) ~> (mpc[1] = "sub_cfg")

\* a subscription issued after an earlier one's stream had delivered an
\* item and ended
C17_Witness ==
  /\ mpc[1] = "sub_cfg"
  /\ nsubs >= 2
  /\ nitems >= 1

\* ------------------------------------------------------------------------
\* Claims about the Config a run call hands to its worker
\* ------------------------------------------------------------------------
\* the maintainer or connect holds CONFIG's write lock: an update of the
\* entry is under way
Updating == configLock # None

\* C18: the Config handed to the worker is the CONFIG entry as it was at
\* the lookup, taken while no update was under way, and what the
\* maintainer does to the entry afterwards does not change it.
C18_SnapshotAtLookup ==
  [][/\ (run.pc = "cfg" /\ run'.res = "ok") =>
          (~Updating /\ run'.cfg = Some(CONFIG[run.conn]))
     /\ run.res = "ok" => run'.cfg = run.cfg]_vars

\* the worker holds a Config whose cluster the live entry no longer has
C18_Witness ==
  /\ run.res = "ok"
  /\ run.cfg # None
  /\ run.cfg[1].cluster # CONFIG[run.conn].cluster

\* ------------------------------------------------------------------------
\* Claims about the maintainer's subscriptions and the keys of the store
\* ------------------------------------------------------------------------
\* C19: a maintainer that has been started finds its connection in POOL and
\* in CONFIG at every subscription, and never panics on the unwrap of run's
\* result.
C19_MaintainerFindsItsConnection ==
  \A c \in Conns :
    /\ mpc[c] # "panicked"
    /\ mpc[c] # "none" => (run_pool(POOL, c) = "cfg" /\ run_config(CONFIG, c) = "ok")

\* a maintainer has subscribed for the second time and both lookups of
\* run succeeded
C19_Witness ==
  \E c \in Conns :
    /\ mpc[c] = "iterate"
    /\ nsubs >= 2
    /\ \A k \in Conns \ {c} : mpc[k] = "none"

\* C20: every entry of every Config's cluster is keyed by the name of the
\* Server it holds.
C20_KeyedByServerName ==
  \A c \in DOMAIN CONFIG :
    \A i \in DOMAIN CONFIG[c].cluster :
      CONFIG[c].cluster[i].key = CONFIG[c].cluster[i].val.name

\* one Config holds an entry the maintainer inserted while another holds
\* the entry connect built from a seed host
C20_Witness ==
  \E c, k \in Conns :
    /\ mpc[c] = "iterate" /\ ready[c]
    /\ c \in DOMAIN CONFIG /\ CONFIG[c].cluster # <<>>
    /\ cpc[k] \in {"probe", "pool", "maintain"}
    /\ k \in DOMAIN CONFIG /\ CONFIG[k].cluster # <<>>

====
